---- MODULE Spec2Model ----
(***************************************************************************)
(* Model of the document-building pipeline of image-to-word-converter:     *)
(*   src/utils/docx_generator.py  DocxGenerator (line scan, inline         *)
(*   formatter, list and table builders).                                  *)
(*                                                                         *)
(* A Python str is a sequence of one-character strings.  Python indices    *)
(* are 0-based; sequences here are 1-based, so the loop index i of the     *)
(* source reads lines[i + 1].                                              *)
(***************************************************************************)
EXTENDS Integers, Sequences, FiniteSets, TLC

VARIABLES
    text,               \* create_document: the extracted_text argument
    pc,                 \* position of the call: "call", "scan", "done"
    document,           \* self.document: the elements added so far
    lines,              \* _process_content: lines
    i,                  \* _process_content: i (0-based)
    current_list_type,  \* _process_content: current_list_type
    list_items,         \* _process_content: list_items
    origin,             \* history: for each element of document, the indices of the lines it holds
    list_src,           \* history: for each entry of list_items, its line index and the branch that added it
    consumed,           \* history: how often each line index was taken by the scan
    fragment,           \* _add_formatted_text: the text argument
    runs,               \* _add_formatted_text: the runs added to the paragraph
    fpc,                \* position of the formatter call: "call", "done"
    calls,              \* two calls at the same time: for each call, its generator, argument and locals
    self_document,      \* two calls at the same time: for each DocxGenerator, its attribute self.document
    added,              \* history: for each call, the elements it has added
    session_state,      \* app.py: st.session_state
    environment,        \* app.py: which client libraries were imported, whether an OpenAI key is set
    uploaded_file,      \* main: uploaded_file
    apc,                \* position of the Extract button's handler: "idle", "process_image", "returned"
    returned,           \* main: the pair process_image returned
    constructions,      \* history: for each model key, how often VisionExtractor(...) was called
    got,                \* history: what get_extractor returned in this run of the handler
    before,             \* history: session_state.extracted_text when the button was pressed
    failure             \* history: the step of process_image that raised, "none" if none did

scanVars == <<text, pc, document, lines, i, current_list_type, list_items,
              origin, list_src, consumed>>
fmtVars == <<fragment, runs, fpc>>
callVars == <<calls, self_document, added>>
appVars == <<session_state, environment, uploaded_file, apc, returned, constructions, got, before,
            failure>>
vars == <<scanVars, fmtVars, callVars, appVars>>

None == "None"

(***************************************************************************)
(* Bounds of the model.                                                    *)
(***************************************************************************)
MaxLines == 3       \* lines of an input text
MaxFragLen == 5     \* characters of a fragment given to the formatter alone
MaxCallLines == 2   \* lines of the text of each of two calls that run at the same time
MaxConstructions == 3   \* constructions of a VisionExtractor for one model key that are followed

(***************************************************************************)
(* Python str operations.                                                  *)
(***************************************************************************)
\* str.isspace() of one character, over the characters of the model
IsSpace(c) == c \in {" ", "\t"}

IsDigit(c) == c \in {"0", "1", "2", "3", "4", "5", "6", "7", "8", "9"}

Min(S) == CHOOSE m \in S : \A n \in S : m <= n

Max(S) == CHOOSE m \in S : \A n \in S : m >= n

\* s[a:]
SliceFrom(s, a) == SubSeq(s, a + 1, Len(s))

\* s[a:-b]: empty when the two ends cross
SliceInner(s, a, b) == SubSeq(s, a + 1, Len(s) - b)

startswith(s, p) ==
    /\ Len(p) <= Len(s)
    /\ SubSeq(s, 1, Len(p)) = p

endswith(s, p) ==
    /\ Len(p) <= Len(s)
    /\ SubSeq(s, Len(s) - Len(p) + 1, Len(s)) = p

\* s.count(c) for a one-character c
count(s, c) == Cardinality({k \in 1..Len(s) : s[k] = c})

\* c in s, for a one-character c
contains(s, c) == \E k \in 1..Len(s) : s[k] = c

\* s.find(sub, from): the least 1-based index >= from where sub starts, 0 if none
find(s, sub, from) ==
    LET hits == {k \in from..(Len(s) - Len(sub) + 1) : SubSeq(s, k, k + Len(sub) - 1) = sub}
    IN  IF hits = {} THEN 0 ELSE Min(hits)

strip(s) ==
    LET keep == {k \in 1..Len(s) : ~IsSpace(s[k])}
    IN  IF keep = {} THEN <<>> ELSE SubSeq(s, Min(keep), Max(keep))

\* s.split(c) for a one-character separator c: always at least one piece
RECURSIVE split(_, _)
split(s, c) ==
    LET k == find(s, <<c>>, 1)
    IN  IF k = 0 THEN <<s>>
        ELSE <<SubSeq(s, 1, k - 1)>> \o split(SubSeq(s, k + 1, Len(s)), c)

\* c.join(ss)
RECURSIVE join(_, _)
join(ss, c) ==
    IF ss = <<>> THEN <<>>
    ELSE IF Len(ss) = 1 THEN ss[1]
    ELSE ss[1] \o <<c>> \o join(Tail(ss), c)

(***************************************************************************)
(* _add_formatted_text: the inline formatter (docx_generator.py 191-216).  *)
(*                                                                         *)
(* pattern = (\*\*.*?\*\*|\*[^*]+\*|\$.*?\$)                                *)
(* The regex engine tries the three alternatives in order at a position,   *)
(* takes the first that matches there, and resumes after the match.        *)
(***************************************************************************)

\* \*\*.*?\*\* at p: "**", then the nearest later "**".  The end index, 0 if none.
BoldEnd(s, p) ==
    IF p + 1 <= Len(s) /\ s[p] = "*" /\ s[p + 1] = "*"
    THEN LET q == find(s, <<"*", "*">>, p + 2)
         IN  IF q = 0 THEN 0 ELSE q + 1
    ELSE 0

\* \*[^*]+\* at p: "*", one or more characters that are not "*", then "*".
ItalicEnd(s, p) ==
    IF p + 1 <= Len(s) /\ s[p] = "*" /\ s[p + 1] # "*"
    THEN find(s, <<"*">>, p + 2)
    ELSE 0

\* \$.*?\$ at p: "$", then the nearest later "$".
FormulaEnd(s, p) ==
    IF p <= Len(s) /\ s[p] = "$"
    THEN find(s, <<"$">>, p + 1)
    ELSE 0

\* The match of the whole pattern at p: which alternative, and where it ends.
MatchAt(s, p) ==
    IF BoldEnd(s, p) # 0 THEN [alt |-> "bold", start |-> p, end |-> BoldEnd(s, p)]
    ELSE IF ItalicEnd(s, p) # 0 THEN [alt |-> "italic", start |-> p, end |-> ItalicEnd(s, p)]
    ELSE IF FormulaEnd(s, p) # 0 THEN [alt |-> "formula", start |-> p, end |-> FormulaEnd(s, p)]
    ELSE [alt |-> None, start |-> p, end |-> 0]

\* re.finditer(pattern, s) from position `from`: leftmost, non-overlapping matches
RECURSIVE finditer(_, _)
finditer(s, from) ==
    LET hits == {p \in from..Len(s) : MatchAt(s, p).end # 0}
    IN  IF hits = {} THEN <<>>
        ELSE LET m == MatchAt(s, Min(hits))
             IN  <<m>> \o finditer(s, m.end + 1)

\* re.split(pattern, s) with its one capturing group: the text before each match,
\* the match, ..., the text after the last match (empty strings included)
RECURSIVE re_split_from(_, _, _)
re_split_from(s, ms, from) ==
    IF ms = <<>> THEN <<SubSeq(s, from, Len(s))>>
    ELSE <<SubSeq(s, from, ms[1].start - 1), SubSeq(s, ms[1].start, ms[1].end)>>
         \o re_split_from(s, Tail(ms), ms[1].end + 1)

re_split(s) == re_split_from(s, finditer(s, 1), 1)

Run(t, b, it, col) == [text |-> t, bold |-> b, italic |-> it, color |-> col]

PlainRun(t) == Run(t, FALSE, FALSE, None)

\* the loop body with the italic test first and without its guard against "**"
format_part_italic_first(part) ==
    IF startswith(part, <<"*">>) /\ endswith(part, <<"*">>)
    THEN Run(SliceInner(part, 1, 1), FALSE, TRUE, None)
    ELSE IF startswith(part, <<"*", "*">>) /\ endswith(part, <<"*", "*">>)
    THEN Run(SliceInner(part, 2, 2), TRUE, FALSE, None)
    ELSE IF startswith(part, <<"$">>) /\ endswith(part, <<"$">>)
    THEN Run(SliceInner(part, 1, 1), FALSE, TRUE, "purple")
    ELSE PlainRun(part)

\* the body of the for loop, for one non-empty part (lines 201-216)
format_part(part) ==
    IF startswith(part, <<"*", "*">>) /\ endswith(part, <<"*", "*">>)
    THEN Run(SliceInner(part, 2, 2), TRUE, FALSE, None)
    ELSE IF startswith(part, <<"*">>) /\ endswith(part, <<"*">>)
            /\ ~startswith(part, <<"*", "*">>)
    THEN Run(SliceInner(part, 1, 1), FALSE, TRUE, None)
    ELSE IF startswith(part, <<"$">>) /\ endswith(part, <<"$">>)
    THEN Run(SliceInner(part, 1, 1), FALSE, TRUE, "purple")
    ELSE PlainRun(part)

RECURSIVE format_parts(_)
format_parts(parts) ==
    IF parts = <<>> THEN <<>>
    ELSE IF Head(parts) = <<>> THEN format_parts(Tail(parts))
    ELSE <<format_part(Head(parts))>> \o format_parts(Tail(parts))

\* the runs _add_formatted_text adds to the paragraph
_add_formatted_text(t) == format_parts(re_split(t))

RECURSIVE RunsText(_)
RunsText(rs) == IF rs = <<>> THEN <<>> ELSE Head(rs).text \o RunsText(Tail(rs))

(***************************************************************************)
(* The formatter called alone on a fragment.                               *)
(***************************************************************************)
InlineChars == {"*", "$", "a", " "}

RECURSIVE SeqsUpTo(_, _)
SeqsUpTo(S, n) ==
    IF n = 0 THEN {<<>>}
    ELSE LET shorter == SeqsUpTo(S, n - 1)
         IN  shorter \cup {Append(s, c) : s \in {t \in shorter : Len(t) = n - 1}, c \in S}

Fragments == SeqsUpTo(InlineChars, MaxFragLen)

FormatInit ==
    /\ fragment \in Fragments
    /\ runs = <<>>
    /\ fpc = "call"

FormatCall ==
    /\ fpc = "call"
    /\ runs' = _add_formatted_text(fragment)
    /\ fpc' = "done"
    /\ UNCHANGED fragment

(***************************************************************************)
(* The blocks of the document.  One block is what one call of an _add_*    *)
(* method (or of document.add_heading) appends to self.document.           *)
(***************************************************************************)
Paragraph(style, rs) == [kind |-> "Paragraph", style |-> style, runs |-> rs]

\* _add_heading(text, level): document.add_heading(text, level=level)
_add_heading(t, level) == [kind |-> "Heading", level |-> level, text |-> t]

\* _add_paragraph(text)
_add_paragraph(t) == Paragraph(None, _add_formatted_text(t))

ListStyle(list_type) == IF list_type = "numbered" THEN "List Number" ELSE "List Bullet"

\* _add_list(items, list_type): one styled paragraph per item
_add_list(items, list_type) ==
    [kind |-> "List", list_type |-> list_type,
     paragraphs |-> [k \in 1..Len(items) |->
                        Paragraph(ListStyle(list_type), _add_formatted_text(items[k]))]]

\* the run of line 233: the three characters the source file holds, and a space
BarRun == Run(<<"U+00E2", "U+201D", "U+201A", " ">>, TRUE, FALSE, "indigo")

\* _add_blockquote(text): an indented paragraph, a bar, then the formatted text
_add_blockquote(t) == [kind |-> "Blockquote", runs |-> <<BarRun>> \o _add_formatted_text(t)]

\* _add_diagram_placeholder(description): a label paragraph and the description
_add_diagram_placeholder(description) ==
    [kind |-> "DiagramPlaceholder", description |-> description]

\* the separator test with the pipe left out of the character class
is_separator_without_pipe(line) ==
    /\ line # <<>>
    /\ \A k \in 1..Len(line) : IsSpace(line[k]) \/ line[k] \in {":", "-"}

\* re.match(r'^[\s|:-]+$', line)
is_separator(line) ==
    /\ line # <<>>
    /\ \A k \in 1..Len(line) : IsSpace(line[k]) \/ line[k] \in {"|", ":", "-"}

NonEmpty(cell) == cell # <<>>

\* [cell.strip() for cell in line.split('|') if cell.strip()]
row_cells(line) ==
    LET pieces == split(line, "|")
    IN  SelectSeq([k \in 1..Len(pieces) |-> strip(pieces[k])], NonEmpty)

\* the indices of table_lines that become rows (lines 266-272)
RECURSIVE retained_from(_, _)
retained_from(table_lines, k) ==
    IF k > Len(table_lines) THEN <<>>
    ELSE IF is_separator(table_lines[k]) THEN retained_from(table_lines, k + 1)
    ELSE IF row_cells(table_lines[k]) # <<>> THEN <<k>> \o retained_from(table_lines, k + 1)
    ELSE retained_from(table_lines, k + 1)

retained(table_lines) == retained_from(table_lines, 1)

\* rows, as _add_table_from_markdown builds it
parse_rows(table_lines) ==
    LET keep == retained(table_lines)
    IN  [r \in 1..Len(keep) |-> row_cells(table_lines[keep[r]])]

\* the run of one cell of the grid: bold in the first row, none where the row is short
cell_runs(rows, r, c) ==
    IF c <= Len(rows[r]) THEN <<Run(rows[r][c], r = 1, FALSE, None)>> ELSE <<>>

\* _add_table_from_markdown(table_lines): the blocks it appends (none without rows)
_add_table_from_markdown(table_lines) ==
    LET rows == parse_rows(table_lines)
        num_cols == Max({Len(rows[r]) : r \in 1..Len(rows)})
    IN  IF table_lines = <<>> \/ rows = <<>> THEN <<>>
        ELSE << [kind |-> "Table", nrows |-> Len(rows), num_cols |-> num_cols,
                 cells |-> [r \in 1..Len(rows) |-> [c \in 1..num_cols |-> cell_runs(rows, r, c)]],
                 spacing |-> Paragraph(None, <<>>)] >>

(***************************************************************************)
(* _process_content: the line scan (docx_generator.py 82-180).             *)
(***************************************************************************)
\* the marker of line 126 as the source file holds it: three characters and a space
BulletGlyph == <<"U+00E2", "U+20AC", "U+00A2", " ">>

DiagramTag == <<"[", "D", "I", "A", "G", "R", "A", "M", ":">>

\* re.match(r'^\d+\.\s', line): the length of the match, 0 if none
numbered_marker(line) ==
    LET nondigit == {k \in 1..Len(line) : ~IsDigit(line[k])}
        d == IF nondigit = {} THEN Len(line) ELSE Min(nondigit) - 1
    IN  IF d >= 1 /\ d + 2 <= Len(line) /\ line[d + 1] = "." /\ IsSpace(line[d + 2])
        THEN d + 2 ELSE 0

\* re.search(r'\[DIAGRAM:\s*(.*?)\]', line): group(1), or None without a match
diagram_match(line) ==
    LET p == find(line, DiagramTag, 1)
        a == p + Len(DiagramTag)
        rest == {k \in a..Len(line) : ~IsSpace(line[k])}
        b == IF rest = {} THEN Len(line) + 1 ELSE Min(rest)
        q == find(line, <<"]">>, b)
    IN  IF p = 0 \/ q = 0 THEN None ELSE SubSeq(line, b, q - 1)

\* the chain with the table test of line 154 moved before the list tests of lines 126-131
Branch_table_before_lists(line) ==
    IF line = <<>> THEN "blank"
    ELSE IF startswith(line, <<"#", "#", " ">>) /\ ~startswith(line, <<"#", "#", "#", " ">>)
    THEN "main_heading"
    ELSE IF startswith(line, <<"#", "#", "#", " ">>) THEN "subheading"
    ELSE IF startswith(line, <<"#", " ">>) /\ ~startswith(line, <<"#", "#", " ">>)
    THEN "top_heading"
    ELSE IF contains(line, "|") /\ count(line, "|") >= 2 THEN "table"
    ELSE IF startswith(line, <<"-", " ">>) \/ startswith(line, BulletGlyph) THEN "bullet"
    ELSE IF numbered_marker(line) # 0 THEN "numbered"
    ELSE IF startswith(line, <<">", " ">>) THEN "blockquote"
    ELSE IF find(line, DiagramTag, 1) # 0 THEN "diagram"
    ELSE "paragraph"

\* the first branch of the if/elif chain of lines 92-174 that takes the line
Branch(line) ==
    IF line = <<>> THEN "blank"
    ELSE IF startswith(line, <<"#", "#", " ">>) /\ ~startswith(line, <<"#", "#", "#", " ">>)
    THEN "main_heading"
    ELSE IF startswith(line, <<"#", "#", "#", " ">>) THEN "subheading"
    ELSE IF startswith(line, <<"#", " ">>) /\ ~startswith(line, <<"#", "#", " ">>)
    THEN "top_heading"
    ELSE IF startswith(line, <<"-", " ">>) \/ startswith(line, BulletGlyph) THEN "bullet"
    ELSE IF numbered_marker(line) # 0 THEN "numbered"
    ELSE IF startswith(line, <<">", " ">>) THEN "blockquote"
    ELSE IF find(line, DiagramTag, 1) # 0 THEN "diagram"
    ELSE IF contains(line, "|") /\ count(line, "|") >= 2 THEN "table"
    ELSE "paragraph"

\* the look-ahead with the test of line 154 (two pipes) in place of that of line 162
table_continues_two_pipes(raw) == contains(raw, "|") /\ count(raw, "|") >= 2

\* the look-ahead stopped by a line that starts with a list marker
table_continues_unless_list(raw) ==
    /\ contains(raw, "|")
    /\ ~startswith(strip(raw), <<"-", " ">>)
    /\ numbered_marker(strip(raw)) = 0

\* the condition of the look-ahead loop of line 162 on lines[j]
table_continues(raw) == contains(raw, "|")

\* the value of j when the look-ahead loop of lines 161-164 ends (0-based)
RECURSIVE table_end(_, _)
table_end(ls, j) ==
    IF j < Len(ls) /\ table_continues(ls[j + 1]) THEN table_end(ls, j + 1) ELSE j

\* the pending list written out before a block (lines 94-97, 103-106, ...)
flushed == IF list_items # <<>> THEN <<_add_list(list_items, current_list_type)>> ELSE <<>>

flushed_origin == IF list_items # <<>> THEN <<list_src>> ELSE <<>>

Src(k, by) == [line |-> k, by |-> by]

\* the line of this iteration: lines[i].strip()
line == strip(lines[i + 1])

Scanning(branch) ==
    /\ pc = "scan"
    /\ i < Len(lines)
    /\ Branch(line) = branch

Take(from, to) == [k \in 1..Len(lines) |-> IF from < k /\ k <= to THEN consumed[k] + 1 ELSE consumed[k]]

\* a branch that flushes the pending list and appends `blocks` for the line
Emit(blocks) ==
    /\ document' = document \o flushed \o blocks
    /\ origin' = origin \o flushed_origin \o [k \in 1..Len(blocks) |-> <<Src(i, Branch(line))>>]
    /\ list_items' = <<>>
    /\ list_src' = <<>>
    /\ current_list_type' = IF list_items # <<>> THEN None ELSE current_list_type
    /\ i' = i + 1
    /\ consumed' = Take(i, i + 1)
    /\ UNCHANGED <<text, pc, lines, fmtVars, callVars, appVars>>

(***************************************************************************)
(* The input texts: up to MaxLines of the lines below, joined by "\n".     *)
(***************************************************************************)
\*   ''                 a blank line
\*   ' '                a line of whitespace only
\*   '## a'
\*   '### **a**'        a bold span inside a heading
\*   '# a'
\*   ' - a '            a bullet line with surrounding whitespace
\*   '12. b|c|'         a numbered marker and two pipes
\*   '> a'
\*   '[DIAGRAM: a]'     a well-formed tag
\*   'x[DIAGRAM: a ]y'  text around a tag, whitespace inside it
\*   '[DIAGRAM: a'      a tag that is never closed
\*   '|a|b|'
\*   '|-|-|'            a header-separator row
\*   '|a||c|d|'         an empty cell between two cells
\*   'a|b'              one pipe
\*   '**a**'
\*   '## a|b|'          a heading marker and two pipes
\*   '- a|b|'           a bullet marker and two pipes
\*   U+00E2 U+20AC U+00A2 a the bullet glyph of line 126: the three characters the source file holds
LineSamples ==
    {
      <<>>,
      <<" ">>,
      <<"#", "#", " ", "a">>,
      <<"#", "#", "#", " ", "*", "*", "a", "*", "*">>,
      <<"#", " ", "a">>,
      <<" ", "-", " ", "a", " ">>,
      <<"1", "2", ".", " ", "b", "|", "c", "|">>,
      <<">", " ", "a">>,
      <<"[", "D", "I", "A", "G", "R", "A", "M", ":", " ", "a", "]">>,
      <<"x", "[", "D", "I", "A", "G", "R", "A", "M", ":", " ", "a", " ", "]", "y">>,
      <<"[", "D", "I", "A", "G", "R", "A", "M", ":", " ", "a">>,
      <<"|", "a", "|", "b", "|">>,
      <<"|", "-", "|", "-", "|">>,
      <<"|", "a", "|", "|", "c", "|", "d", "|">>,
      <<"a", "|", "b">>,
      <<"*", "*", "a", "*", "*">>,
      <<"#", "#", " ", "a", "|", "b", "|">>,
      <<"-", " ", "a", "|", "b", "|">>,
      <<"U+00E2", "U+20AC", "U+00A2", " ", "a">>
    }

RECURSIVE LineSeqs(_)
LineSeqs(n) ==
    IF n = 0 THEN {<<>>}
    ELSE LET shorter == LineSeqs(n - 1)
         IN  shorter \cup {Append(ls, l) : ls \in {t \in shorter : Len(t) = n - 1}, l \in LineSamples}

Texts == {join(ls, "\n") : ls \in LineSeqs(MaxLines) \ {<<>>}}

DefaultTitle == <<"E", "x", "t", "r", "a", "c", "t", "e", "d", " ", "D", "o", "c", "u", "m", "e", "n", "t">>

\* the run of _add_separator (line 78): the rule string, repeated fifty times there
\* and written once here
SeparatorRun == Run(<<"U+00E2", "U+201D", "U+20AC">>, FALSE, FALSE, "gray")

Init ==
    /\ text \in Texts
    /\ pc = "call"
    /\ document = None
    /\ lines = <<>>
    /\ i = 0
    /\ current_list_type = None
    /\ list_items = <<>>
    /\ origin = <<>>
    /\ list_src = <<>>
    /\ consumed = <<>>
    /\ fragment = <<>>
    /\ runs = <<>>
    /\ fpc = "done"
    /\ calls = <<>>
    /\ self_document = <<>>
    /\ added = <<>>
    /\ session_state = None
    /\ environment = None
    /\ uploaded_file = None
    /\ apc = "idle"
    /\ returned = None
    /\ constructions = <<>>
    /\ got = None
    /\ before = None
    /\ failure = "none"

\* create_document up to the call of _process_content, and the first lines of that
create_document ==
    /\ pc = "call"
    /\ document' = <<_add_heading(DefaultTitle, 0), Paragraph(None, <<SeparatorRun>>)>>
    /\ origin' = <<<<>>, <<>>>>
    /\ lines' = split(text, "\n")
    /\ consumed' = [k \in 1..Len(split(text, "\n")) |-> 0]
    /\ current_list_type' = None
    /\ list_items' = <<>>
    /\ list_src' = <<>>
    /\ i' = 0
    /\ pc' = "scan"
    /\ UNCHANGED <<text, fmtVars, callVars, appVars>>

\* the blank branch without the flush of lines 94-97
BlankLine_keeps_list ==
    /\ Scanning("blank")
    /\ i' = i + 1
    /\ consumed' = Take(i, i + 1)
    /\ UNCHANGED <<text, pc, lines, document, origin, current_list_type, list_items, list_src, fmtVars, callVars, appVars>>

\* lines 92-99
BlankLine ==
    /\ Scanning("blank")
    /\ Emit(<<>>)

\* the "## " branch with the level of the "### " branch
MainHeading_level2 ==
    /\ Scanning("main_heading")
    /\ Emit(<<_add_heading(SliceFrom(line, 3), 2)>>)

\* lines 102-107
MainHeading ==
    /\ Scanning("main_heading")
    /\ Emit(<<_add_heading(SliceFrom(line, 3), 1)>>)

\* lines 110-115
SubHeading ==
    /\ Scanning("subheading")
    /\ Emit(<<_add_heading(SliceFrom(line, 4), 2)>>)

\* lines 118-123
TopHeading ==
    /\ Scanning("top_heading")
    /\ Emit(<<_add_heading(SliceFrom(line, 2), 0)>>)

\* a list branch: lines 126-128 and 131-133
AppendItem(list_type, item) ==
    /\ current_list_type' = list_type
    /\ list_items' = Append(list_items, item)
    /\ list_src' = Append(list_src, Src(i, list_type))
    /\ i' = i + 1
    /\ consumed' = Take(i, i + 1)
    /\ UNCHANGED <<text, pc, lines, document, origin, fmtVars, callVars, appVars>>

BulletPoint ==
    /\ Scanning("bullet")
    /\ AppendItem("bullet", SliceFrom(line, 2))

NumberedItem ==
    /\ Scanning("numbered")
    /\ AppendItem("numbered", SliceFrom(line, numbered_marker(line)))

\* lines 136-141
Blockquote ==
    /\ Scanning("blockquote")
    /\ Emit(<<_add_blockquote(SliceFrom(line, 2))>>)

\* lines 144-151
DiagramMarker ==
    /\ Scanning("diagram")
    /\ Emit(IF diagram_match(line) # None
            THEN <<_add_diagram_placeholder(diagram_match(line))>>
            ELSE <<>>)

\* table_lines of lines 160-164
table_lines == <<line>> \o [k \in 1..(table_end(lines, i + 1) - i - 1) |-> strip(lines[i + 1 + k])]

\* the table branch without the increment of line 176 after i = j - 1
TableBlock_no_increment ==
    /\ Scanning("table")
    /\ LET j == table_end(lines, i + 1)
           blocks == _add_table_from_markdown(table_lines)
           keep == retained(table_lines)
       IN  /\ document' = document \o flushed \o blocks
           /\ origin' = origin \o flushed_origin
                        \o [b \in 1..Len(blocks) |-> [r \in 1..Len(keep) |-> Src(i + keep[r] - 1, "table")]]
           /\ i' = j - 1
           /\ consumed' = Take(i, j)
    /\ list_items' = <<>>
    /\ list_src' = <<>>
    /\ current_list_type' = IF list_items # <<>> THEN None ELSE current_list_type
    /\ UNCHANGED <<text, pc, lines, fmtVars, callVars, appVars>>

\* lines 154-166
TableBlock ==
    /\ Scanning("table")
    /\ LET j == table_end(lines, i + 1)
           blocks == _add_table_from_markdown(table_lines)
           keep == retained(table_lines)
       IN  /\ document' = document \o flushed \o blocks
           /\ origin' = origin \o flushed_origin
                        \o [b \in 1..Len(blocks) |-> [r \in 1..Len(keep) |-> Src(i + keep[r] - 1, "table")]]
           /\ i' = (j - 1) + 1
           /\ consumed' = Take(i, j)
    /\ list_items' = <<>>
    /\ list_src' = <<>>
    /\ current_list_type' = IF list_items # <<>> THEN None ELSE current_list_type
    /\ UNCHANGED <<text, pc, lines, fmtVars, callVars, appVars>>

\* lines 169-174
RegularParagraph ==
    /\ Scanning("paragraph")
    /\ Emit(<<_add_paragraph(line)>>)

\* the end of the scan without the flush of lines 179-180
EndOfInput_no_flush ==
    /\ pc = "scan"
    /\ ~(i < Len(lines))
    /\ pc' = "done"
    /\ UNCHANGED <<text, lines, i, document, origin, current_list_type, list_items, list_src, consumed, fmtVars, callVars, appVars>>

\* lines 178-180, and the return of create_document
EndOfInput ==
    /\ pc = "scan"
    /\ ~(i < Len(lines))
    /\ document' = document \o flushed
    /\ origin' = origin \o flushed_origin
    /\ pc' = "done"
    /\ UNCHANGED <<text, lines, i, current_list_type, list_items, list_src, consumed, fmtVars, callVars, appVars>>

Next ==
    \/ create_document
    \/ BlankLine
    \/ MainHeading
    \/ SubHeading
    \/ TopHeading
    \/ BulletPoint
    \/ NumberedItem
    \/ Blockquote
    \/ DiagramMarker
    \/ TableBlock
    \/ RegularParagraph
    \/ EndOfInput

Spec == Init /\ [][Next]_vars

FormatStart ==
    /\ FormatInit
    /\ text = <<>>
    /\ pc = "done"
    /\ document = None
    /\ lines = <<>>
    /\ i = 0
    /\ current_list_type = None
    /\ list_items = <<>>
    /\ origin = <<>>
    /\ list_src = <<>>
    /\ consumed = <<>>
    /\ calls = <<>>
    /\ self_document = <<>>
    /\ added = <<>>
    /\ session_state = None
    /\ environment = None
    /\ uploaded_file = None
    /\ apc = "idle"
    /\ returned = None
    /\ constructions = <<>>
    /\ got = None
    /\ before = None
    /\ failure = "none"

FormatNext == FormatCall /\ UNCHANGED <<scanVars, callVars, appVars>>

FormatSpec == FormatStart /\ [][FormatNext]_vars

(***************************************************************************)
(* Two calls of create_document that run at the same time.                 *)
(*                                                                         *)
(* Each call has its own text, lines, i, current_list_type and list_items  *)
(* (arguments and locals of create_document and _process_content).  The    *)
(* document is not a local: it is the attribute self.document of the       *)
(* DocxGenerator the call was made on (line 29), read again at every       *)
(* self.document.add_... and at self.document.save (line 51).  generate_docx *)
(* (lines 299-311) makes a new DocxGenerator for each call; two callers    *)
(* of create_document may use the same one.  A thread can be switched      *)
(* between any two statements; the steps below are the assignment of       *)
(* line 29, the title and separator, one iteration of the loop, the flush  *)
(* after the loop, and the save.                                           *)
(***************************************************************************)
Calls == {1, 2}

Generators == {1, 2}

\* the lines the two calls are given
CallSamples ==
    {
      <<"#", " ", "a">>,
      <<" ", "-", " ", "a", " ">>,
      <<"|", "a", "|", "b", "|">>,
      <<"a", "|", "b">>
    }

RECURSIVE CallLineSeqs(_)
CallLineSeqs(n) ==
    IF n = 0 THEN {<<>>}
    ELSE LET shorter == CallLineSeqs(n - 1)
         IN  shorter \cup {Append(ls, l) : ls \in {t \in shorter : Len(t) = n - 1}, l \in CallSamples}

CallTexts == {join(ls, "\n") : ls \in CallLineSeqs(MaxCallLines) \ {<<>>}}

\* one iteration of the while loop of lines 88-176 on the locals of a call:
\* the elements it adds to self.document and the locals after it
iteration(ls, n, items, list_type) ==
    LET l == strip(ls[n + 1])
        branch == Branch(l)
        flush == IF items # <<>> THEN <<_add_list(items, list_type)>> ELSE <<>>
        j == table_end(ls, n + 1)
        rows == <<l>> \o [k \in 1..(j - n - 1) |-> strip(ls[n + 1 + k])]
        own == CASE branch = "main_heading" -> <<_add_heading(SliceFrom(l, 3), 1)>>
                 [] branch = "subheading" -> <<_add_heading(SliceFrom(l, 4), 2)>>
                 [] branch = "top_heading" -> <<_add_heading(SliceFrom(l, 2), 0)>>
                 [] branch = "blockquote" -> <<_add_blockquote(SliceFrom(l, 2))>>
                 [] branch = "diagram" -> IF diagram_match(l) # None
                                          THEN <<_add_diagram_placeholder(diagram_match(l))>>
                                          ELSE <<>>
                 [] branch = "table" -> _add_table_from_markdown(rows)
                 [] branch = "paragraph" -> <<_add_paragraph(l)>>
                 [] OTHER -> <<>>
    IN  IF branch = "bullet"
        THEN [added |-> <<>>, i |-> n + 1, list_items |-> Append(items, SliceFrom(l, 2)),
              current_list_type |-> "bullet"]
        ELSE IF branch = "numbered"
        THEN [added |-> <<>>, i |-> n + 1,
              list_items |-> Append(items, SliceFrom(l, numbered_marker(l))),
              current_list_type |-> "numbered"]
        ELSE [added |-> flush \o own, i |-> IF branch = "table" THEN j ELSE n + 1,
              list_items |-> <<>>,
              current_list_type |-> IF items # <<>> THEN None ELSE list_type]

\* a call that has not started: the generator it is made on and its argument
NewCall(g, t) ==
    [self |-> g, text |-> t, pc |-> "call", lines |-> <<>>, i |-> 0,
     current_list_type |-> None, list_items |-> <<>>, returned |-> None]

SharedInit ==
    /\ calls \in {[c \in Calls |-> NewCall(g[c], t[c])] :
                     g \in {f \in [Calls -> Generators] : f[1] = 1}, t \in [Calls -> CallTexts]}
    /\ self_document = [g \in Generators |-> None]
    /\ added = [c \in Calls |-> <<>>]

\* self.document.add_...: the elements go to the document the attribute holds now
Add(c, blocks) ==
    /\ self_document' = [self_document EXCEPT ![calls[c].self] = @ \o blocks]
    /\ added' = [added EXCEPT ![c] = @ \o blocks]

\* line 29: self.document = Document()
NewDocument(c) ==
    /\ calls[c].pc = "call"
    /\ self_document' = [self_document EXCEPT ![calls[c].self] = <<>>]
    /\ calls' = [calls EXCEPT ![c].pc = "title"]
    /\ UNCHANGED <<added, scanVars, fmtVars, appVars>>

\* lines 32-47 and 85-86: the title, the separator, and the locals of _process_content
AddTitle(c) ==
    /\ calls[c].pc = "title"
    /\ Add(c, <<_add_heading(DefaultTitle, 0), Paragraph(None, <<SeparatorRun>>)>>)
    /\ calls' = [calls EXCEPT ![c].pc = "scan", ![c].lines = split(calls[c].text, "\n"),
                              ![c].i = 0, ![c].list_items = <<>>,
                              ![c].current_list_type = None]
    /\ UNCHANGED <<scanVars, fmtVars, appVars>>

\* lines 88-176: one iteration
Iterate(c) ==
    /\ calls[c].pc = "scan"
    /\ calls[c].i < Len(calls[c].lines)
    /\ LET it == iteration(calls[c].lines, calls[c].i, calls[c].list_items,
                           calls[c].current_list_type)
       IN  /\ Add(c, it.added)
           /\ calls' = [calls EXCEPT ![c].i = it.i, ![c].list_items = it.list_items,
                                     ![c].current_list_type = it.current_list_type]
    /\ UNCHANGED <<scanVars, fmtVars, appVars>>

\* lines 179-180: the flush after the loop
FlushAtEnd(c) ==
    /\ calls[c].pc = "scan"
    /\ ~(calls[c].i < Len(calls[c].lines))
    /\ Add(c, IF calls[c].list_items # <<>>
              THEN <<_add_list(calls[c].list_items, calls[c].current_list_type)>>
              ELSE <<>>)
    /\ calls' = [calls EXCEPT ![c].pc = "save"]
    /\ UNCHANGED <<scanVars, fmtVars, appVars>>

\* lines 50-54: self.document.save(doc_buffer); return doc_buffer
Save(c) ==
    /\ calls[c].pc = "save"
    /\ calls' = [calls EXCEPT ![c].pc = "done", ![c].returned = self_document[calls[c].self]]
    /\ UNCHANGED <<self_document, added, scanVars, fmtVars, appVars>>

SharedStart ==
    /\ SharedInit
    /\ text = <<>>
    /\ pc = "done"
    /\ document = None
    /\ lines = <<>>
    /\ i = 0
    /\ current_list_type = None
    /\ list_items = <<>>
    /\ origin = <<>>
    /\ list_src = <<>>
    /\ consumed = <<>>
    /\ fragment = <<>>
    /\ runs = <<>>
    /\ fpc = "done"
    /\ session_state = None
    /\ environment = None
    /\ uploaded_file = None
    /\ apc = "idle"
    /\ returned = None
    /\ constructions = <<>>
    /\ got = None
    /\ before = None
    /\ failure = "none"

SharedNext ==
    \E c \in Calls :
        \/ NewDocument(c)
        \/ AddTitle(c)
        \/ Iterate(c)
        \/ FlushAtEnd(c)
        \/ Save(c)

SharedSpec == SharedStart /\ [][SharedNext]_vars

(***************************************************************************)
(* The app session (src/app.py): st.session_state, the Extract button of   *)
(* main, process_image and get_extractor, with the constructor of          *)
(* VisionExtractor (src/utils/vision_extractor.py 59-84).                  *)
(*                                                                         *)
(* A script run of main is one thread; the steps of the button's handler   *)
(* are the assignment of line 551, the call of process_image, and the      *)
(* branch of lines 562-568.  What is outside the repository is an input:   *)
(* whether the two client libraries could be imported, whether an OpenAI   *)
(* key is set, whether the uploaded image can be decoded, and what the     *)
(* model's API answers.                                                    *)
(***************************************************************************)
\* AVAILABLE_MODELS (vision_extractor.py 27-40): the inference_type of each model key
ModelKeys == {"Qwen3-VL-8B", "GPT-4-Vision"}

inference_type(model_key) == IF model_key = "GPT-4-Vision" THEN "openai" ELSE "huggingface"

\* a key that `extractor_key not in st.session_state` finds missing
Absent == "absent"

\* the texts a model answers with
ExtractedTexts == {"first text", "second text"}

\* the files the uploader can hold
UploadedFiles == {"image", "damaged image"}

\* VisionExtractor.__init__ (lines 59-84): the error it raises, or None when it returns
VisionExtractor_init(env, model_key) ==
    IF inference_type(model_key) = "huggingface"
    THEN IF ~env.HF_HUB_AVAILABLE THEN "huggingface_hub not installed" ELSE None
    ELSE IF ~env.OPENAI_AVAILABLE THEN "openai not installed"
    ELSE IF ~env.OPENAI_API_KEY THEN "OpenAI API key required"
    ELSE None

\* the instance the n-th construction for the key makes
Instance(model_key, n) == "VisionExtractor " \o model_key \o " #" \o ToString(n)

\* get_extractor with the test `not st.session_state.get(extractor_key)`: a key that
\* holds None is constructed again
get_extractor_retries(ss, env, made, model_key) ==
    IF ss.extractor[model_key] \in {Absent, None}
    THEN LET e == VisionExtractor_init(env, model_key)
             made2 == [made EXCEPT ![model_key] = @ + 1]
         IN  IF e = None
             THEN [session_state |-> [ss EXCEPT !.extractor[model_key] =
                                                    Instance(model_key, made2[model_key])],
                   value |-> Instance(model_key, made2[model_key]), made |-> made2]
             ELSE [session_state |-> [ss EXCEPT !.extractor[model_key] = None,
                                                !.extractor_error[model_key] = e],
                   value |-> None, made |-> made2]
    ELSE [session_state |-> ss, value |-> ss.extractor[model_key], made |-> made]

\* get_extractor(model_key): the session state after the call, with the value returned
\* and the number of constructions it tried
get_extractor(ss, env, made, model_key) ==
    IF ss.extractor[model_key] = Absent
    THEN LET e == VisionExtractor_init(env, model_key)
             made2 == [made EXCEPT ![model_key] = @ + 1]
         IN  IF e = None
             THEN [session_state |-> [ss EXCEPT !.extractor[model_key] =
                                                    Instance(model_key, made2[model_key])],
                   value |-> Instance(model_key, made2[model_key]), made |-> made2]
             ELSE [session_state |-> [ss EXCEPT !.extractor[model_key] = None,
                                                !.extractor_error[model_key] = e],
                   value |-> None, made |-> made2]
    ELSE [session_state |-> ss, value |-> ss.extractor[model_key], made |-> made]

\* the value get_extractor returns when the session state was never touched by line 344
error_msg(ss, model_key) ==
    IF ss.extractor_error[model_key] = Absent THEN "Vision extractor not available"
    ELSE ss.extractor_error[model_key]

\* main, lines 389-397: the session state of a new session
AppInit ==
    /\ session_state = [extracted_text |-> None, processing |-> FALSE,
                        selected_model |-> "Qwen3-VL-8B",
                        extractor |-> [k \in ModelKeys |-> Absent],
                        extractor_error |-> [k \in ModelKeys |-> Absent]]
    /\ environment \in [HF_HUB_AVAILABLE : BOOLEAN, OPENAI_AVAILABLE : BOOLEAN,
                        OPENAI_API_KEY : BOOLEAN]
    /\ uploaded_file = None
    /\ apc = "idle"
    /\ returned = None
    /\ constructions = [k \in ModelKeys |-> 0]
    /\ got = "no call"
    /\ before = None
    /\ failure = "none"

\* line 446: the selectbox
SelectModel ==
    /\ apc = "idle"
    /\ \E m \in ModelKeys : session_state' = [session_state EXCEPT !.selected_model = m]
    /\ UNCHANGED <<environment, uploaded_file, apc, returned, constructions, got, before, failure>>
    /\ UNCHANGED <<scanVars, fmtVars, callVars>>

\* lines 459-474: the file uploader
UploadFile ==
    /\ apc = "idle"
    /\ uploaded_file' \in UploadedFiles
    /\ UNCHANGED <<session_state, environment, apc, returned, constructions, got, before, failure>>
    /\ UNCHANGED <<scanVars, fmtVars, callVars>>

\* the OpenAI key is set or removed between two script runs (read at lines 329-335)
SecretsChange ==
    /\ apc = "idle"
    /\ environment' = [environment EXCEPT !.OPENAI_API_KEY = ~@]
    /\ UNCHANGED <<session_state, uploaded_file, apc, returned, constructions, got, before, failure>>
    /\ UNCHANGED <<scanVars, fmtVars, callVars>>

\* lines 550-557: the button is pressed
ExtractButton ==
    /\ apc = "idle"
    /\ uploaded_file # None
    /\ session_state' = [session_state EXCEPT !.processing = TRUE]
    /\ before' = session_state.extracted_text
    /\ got' = "no call"
    /\ apc' = "process_image"
    /\ failure' = "none"
    /\ UNCHANGED <<environment, uploaded_file, returned, constructions>>
    /\ UNCHANGED <<scanVars, fmtVars, callVars>>

\* process_image without the try/except of lines 361-378: the exception of
\* prepare_image_for_model or of extract_text ends the script run
process_image_without_try ==
    /\ apc = "process_image"
    /\ LET model_key == session_state.selected_model
           call == get_extractor(session_state, environment, constructions, model_key)
       IN  IF uploaded_file = "damaged image"
           THEN /\ apc' = "idle"
                /\ failure' = "image preparation"
                /\ UNCHANGED <<session_state, constructions, got, returned>>
           ELSE /\ constructions[model_key] < MaxConstructions
                /\ session_state' = call.session_state
                /\ constructions' = call.made
                /\ got' = call.value
                /\ IF call.value = None
                   THEN /\ returned' = <<"Error: " \o error_msg(call.session_state, model_key), FALSE>>
                        /\ failure' = "extractor creation"
                        /\ apc' = "returned"
                   ELSE \/ /\ \E t \in ExtractedTexts : returned' = <<t, TRUE>>
                           /\ failure' = "none"
                           /\ apc' = "returned"
                        \/ /\ failure' = "extraction"
                           /\ apc' = "idle"
                           /\ UNCHANGED returned
    /\ UNCHANGED <<environment, uploaded_file, before>>
    /\ UNCHANGED <<scanVars, fmtVars, callVars>>

\* process_image(uploaded_file, st.session_state.selected_model), lines 349-378
process_image ==
    /\ apc = "process_image"
    /\ LET model_key == session_state.selected_model
           call == get_extractor(session_state, environment, constructions, model_key)
       IN  IF uploaded_file = "damaged image"
           THEN \* prepare_image_for_model raises, line 363
                /\ returned' = <<"Error processing image: " \o "cannot decode image", FALSE>>
                /\ failure' = "image preparation"
                /\ UNCHANGED <<session_state, constructions, got>>
           ELSE /\ constructions[model_key] < MaxConstructions
                /\ session_state' = call.session_state
                /\ constructions' = call.made
                /\ got' = call.value
                /\ IF call.value = None
                   THEN /\ returned' = <<"Error: " \o error_msg(call.session_state, model_key), FALSE>>
                        /\ failure' = "extractor creation"
                   ELSE \/ /\ \E t \in ExtractedTexts : returned' = <<t, TRUE>>
                           /\ failure' = "none"
                        \/ \* extractor.extract_text raises, line 373
                           /\ returned' = <<"Error processing image: " \o "extraction failed", FALSE>>
                           /\ failure' = "extraction"
    /\ apc' = "returned"
    /\ UNCHANGED <<environment, uploaded_file, before>>
    /\ UNCHANGED <<scanVars, fmtVars, callVars>>

\* lines 562-568: the branch on success
AfterProcessImage ==
    /\ apc = "returned"
    /\ session_state' = IF returned[2]
                        THEN [session_state EXCEPT !.extracted_text = returned[1],
                                                   !.processing = FALSE]
                        ELSE [session_state EXCEPT !.processing = FALSE]
    /\ apc' = "idle"
    /\ UNCHANGED <<environment, uploaded_file, returned, constructions, got, before, failure>>
    /\ UNCHANGED <<scanVars, fmtVars, callVars>>

AppStart ==
    /\ AppInit
    /\ text = <<>>
    /\ pc = "done"
    /\ document = None
    /\ lines = <<>>
    /\ i = 0
    /\ current_list_type = None
    /\ list_items = <<>>
    /\ origin = <<>>
    /\ list_src = <<>>
    /\ consumed = <<>>
    /\ fragment = <<>>
    /\ runs = <<>>
    /\ fpc = "done"
    /\ calls = <<>>
    /\ self_document = <<>>
    /\ added = <<>>

AppNext ==
    \/ SelectModel
    \/ UploadFile
    \/ SecretsChange
    \/ ExtractButton
    \/ process_image
    \/ AfterProcessImage

AppSpec == AppStart /\ [][AppNext]_vars

(***************************************************************************)
(* What the scan emitted: the blocks after the title and the separator of  *)
(* create_document, and the lines they came from.                          *)
(***************************************************************************)
Preamble == 2

Scanned == pc \in {"scan", "done"}

BlockIds == IF Scanned THEN (Preamble + 1)..Len(document) ELSE {}

\* the trimmed line with the 0-based index k
LineAt(k) == strip(lines[k + 1])

\* the 0-based indices of the lines the scan has taken so far
Taken == {k \in 0..(Len(lines) - 1) : consumed[k + 1] > 0}

(***************************************************************************)
(* C1.  For every fragment f given to _add_formatted_text, the texts of    *)
(* the runs it adds, concatenated in order, are f without the delimiter    *)
(* characters of the spans the pattern matched, and nothing else is        *)
(* removed: a "*", "**", "***" or "$" that is part of no match is still    *)
(* there.                                                                  *)
(***************************************************************************)
DelimLen(alt) == IF alt = "bold" THEN 2 ELSE 1

\* s without the delimiters of the matches ms, read from position `from`
RECURSIVE without_delims(_, _, _)
without_delims(s, ms, from) ==
    IF ms = <<>> THEN SubSeq(s, from, Len(s))
    ELSE SubSeq(s, from, ms[1].start - 1)
         \o SubSeq(s, ms[1].start + DelimLen(ms[1].alt), ms[1].end - DelimLen(ms[1].alt))
         \o without_delims(s, Tail(ms), ms[1].end + 1)

StripRecognized(s) == without_delims(s, finditer(s, 1), 1)

C1_RoundTrip ==
    fpc = "done" => RunsText(runs) = StripRecognized(fragment)

(***************************************************************************)
(* C2.  When a list is open and a list item of the other kind is read, the *)
(* open list is flushed as its own block and a new list is opened with the *)
(* new item: the pending items are all of the pending kind, and no list    *)
(* block holds items that came from both bullet lines and numbered lines.  *)
(***************************************************************************)
C2_ListsNeverMixKinds ==
    /\ \A k \in 1..Len(list_src) : list_src[k].by = current_list_type
    /\ \A b \in BlockIds :
          document[b].kind = "List" =>
              \A k \in 1..Len(origin[b]) : origin[b][k].by = document[b].list_type

(***************************************************************************)
(* C3.  A line that holds "[DIAGRAM:" with no "]" after it, and that no    *)
(* earlier pattern takes, is emitted as a Paragraph of the trimmed line:   *)
(* it gives no DiagramPlaceholder and is not dropped.                      *)
(***************************************************************************)
HeadingMarkers == {<<"#", "#", " ">>, <<"#", "#", "#", " ">>, <<"#", " ">>}

ListMarkers == {<<"-", " ">>, BulletGlyph}

\* the line holds the opening text of a tag and no "]" after it
MalformedTag(l) ==
    /\ find(l, DiagramTag, 1) # 0
    /\ find(l, <<"]">>, find(l, DiagramTag, 1)) = 0

\* no pattern tested before the diagram marker takes the line
NoEarlierPattern(l) ==
    /\ l # <<>>
    /\ \A m \in HeadingMarkers \cup ListMarkers \cup {<<">", " ">>} : ~startswith(l, m)
    /\ numbered_marker(l) = 0

\* the line k was read by the loop body, not by the look-ahead of a table
ReadAsTableRow(k) ==
    \E b \in BlockIds : document[b].kind = "Table" /\ \E r \in 1..Len(origin[b]) : origin[b][r].line = k

C3_MalformedTagIsParagraph ==
    Scanned =>
        \A k \in Taken :
            (MalformedTag(LineAt(k)) /\ NoEarlierPattern(LineAt(k)) /\ ~ReadAsTableRow(k)) =>
                \E b \in BlockIds :
                    /\ document[b].kind = "Paragraph"
                    /\ RunsText(document[b].runs) = StripRecognized(LineAt(k))
                    /\ \E r \in 1..Len(origin[b]) : origin[b][r].line = k

(***************************************************************************)
(* C4.  Each non-blank line the scan has taken, a header-separator row     *)
(* apart, is in exactly one place: one block of its own, or one item of    *)
(* one list (pending or emitted), or one row of one table.                 *)
(***************************************************************************)
\* made only of dashes, colons, pipes and whitespace
OnlyRulePunctuation(l) ==
    /\ l # <<>>
    /\ \A k \in 1..Len(l) : l[k] \in {"-", ":", "|", " ", "\t"}

\* the items of the list that is still open (after the loop it has been written out)
Pending == IF pc = "scan" THEN list_src ELSE <<>>

\* the places of document and of the pending list that hold line k
PlacesOf(k) ==
    {<<b, r>> \in BlockIds \X (1..Len(lines)) : r <= Len(origin[b]) /\ origin[b][r].line = k}
    \cup {<<0, r>> : r \in {q \in 1..Len(Pending) : Pending[q].line = k}}

C4_EveryLineInOneBlock ==
    Scanned =>
        \A k \in Taken :
            (LineAt(k) # <<>> /\ ~OnlyRulePunctuation(LineAt(k))) => Cardinality(PlacesOf(k)) = 1

\* the same, with the lines of C3 left out: what holds of the code
C4_ExceptMalformedTags ==
    Scanned =>
        \A k \in Taken :
            (LineAt(k) # <<>> /\ ~OnlyRulePunctuation(LineAt(k)) /\ ~MalformedTag(LineAt(k)))
                => Cardinality(PlacesOf(k)) = 1

(***************************************************************************)
(* C5.  Once a table is open, a following line is appended to it only if   *)
(* it holds at least two "|"; the first following line with fewer than two *)
(* closes the table and is the next line the scan classifies.              *)
(***************************************************************************)
\* this step is the table branch, started on line i
TableStep == pc = "scan" /\ i < Len(lines) /\ Branch(line) = "table"

\* the step takes exactly the lines i .. i' - 1
TakesUpTo == \A k \in 0..(Len(lines) - 1) :
                 consumed'[k + 1] = consumed[k + 1] + (IF i <= k /\ k < i' THEN 1 ELSE 0)

C5_TableNeedsTwoPipes ==
    [][TableStep =>
          /\ i' > i
          /\ TakesUpTo
          /\ \A k \in (i + 1)..(i' - 1) : count(lines[k + 1], "|") >= 2
          /\ i' < Len(lines) => count(lines[i' + 1], "|") < 2]_vars

(***************************************************************************)
(* C5, amended.  Once a table is open, a following line is appended to it  *)
(* exactly when it holds at least one "|"; the first following line with   *)
(* no "|" at all (a blank line included) closes the table and is the next  *)
(* line the scan classifies.                                               *)
(***************************************************************************)
C5_TableNeedsOnePipe ==
    [][TableStep =>
          /\ i' > i
          /\ TakesUpTo
          /\ \A k \in (i + 1)..(i' - 1) : count(lines[k + 1], "|") >= 1
          /\ i' < Len(lines) => count(lines[i' + 1], "|") = 0]_vars

\* a table has taken a following line with exactly one "|", and the line after it closed it
C5_Witness ==
    /\ Scanned
    /\ \E b \in BlockIds :
          /\ document[b].kind = "Table"
          /\ \E r \in 2..Len(origin[b]) : count(lines[origin[b][r].line + 1], "|") = 1
          /\ \E k \in Taken : k > origin[b][Len(origin[b])].line /\ ~ReadAsTableRow(k)
                              /\ count(lines[k + 1], "|") = 0

(***************************************************************************)
(* C6.  Of the cells of a table row, only the empty ones made by a leading *)
(* or a trailing "|" are dropped: an empty cell between two others is      *)
(* kept, so each non-empty cell is in the column it has in the source row. *)
(***************************************************************************)
\* the cells of a row with only the leading and the trailing empty piece dropped
SourceCells(l) ==
    LET pieces == split(l, "|")
        cells == [k \in 1..Len(pieces) |-> strip(pieces[k])]
        first == IF cells[1] = <<>> THEN 2 ELSE 1
        last == IF cells[Len(cells)] = <<>> THEN Len(cells) - 1 ELSE Len(cells)
    IN  SubSeq(cells, first, last)

C6_CellsKeepTheirColumn ==
    \A b \in BlockIds :
        document[b].kind = "Table" =>
            \A r \in 1..Len(origin[b]) :
                LET want == SourceCells(LineAt(origin[b][r].line))
                IN  \A c \in 1..Len(want) :
                        want[c] # <<>> =>
                            /\ c <= document[b].num_cols
                            /\ RunsText(document[b].cells[r][c]) = want[c]

(***************************************************************************)
(* C7.  In every table that is written out, no row comes from a line made  *)
(* only of dashes, colons, pipes and whitespace; the rows keep the order   *)
(* of their lines and the first of them is the header (bold) row; the      *)
(* column count is the largest cell count of a row, and a shorter row      *)
(* fills only its own cells.                                               *)
(***************************************************************************)
\* the number of non-blank cells of a source row
CellCount(l) ==
    LET pieces == split(l, "|")
    IN  Cardinality({k \in 1..Len(pieces) : strip(pieces[k]) # <<>>})

RowLine(b, r) == LineAt(origin[b][r].line)

C7_TableShape ==
    \A b \in BlockIds :
        document[b].kind = "Table" =>
            LET t == document[b]
                rows == 1..Len(origin[b])
            IN  /\ t.nrows = Len(origin[b])
                /\ t.nrows >= 1
                /\ \A r \in rows : ~OnlyRulePunctuation(RowLine(b, r))
                /\ \A r \in rows : r > 1 => origin[b][r - 1].line < origin[b][r].line
                /\ t.num_cols = Max({CellCount(RowLine(b, r)) : r \in rows})
                /\ \A r \in rows : \A c \in 1..t.num_cols :
                      /\ (c <= CellCount(RowLine(b, r))) <=> (t.cells[r][c] # <<>>)
                      /\ \A q \in 1..Len(t.cells[r][c]) : t.cells[r][c][q].bold <=> (r = 1)

\* a table written out with a separator row dropped between its rows and a short row
C7_Witness ==
    /\ Scanned
    /\ \E b \in BlockIds :
          /\ document[b].kind = "Table"
          /\ document[b].nrows >= 2
          /\ \E r \in 1..Len(origin[b]) : CellCount(RowLine(b, r)) < document[b].num_cols
          /\ \E k \in Taken :
                /\ origin[b][1].line < k
                /\ k < origin[b][Len(origin[b])].line
                /\ OnlyRulePunctuation(LineAt(k))

(***************************************************************************)
(* C8.  The scan terminates and never gets stuck: every iteration moves i  *)
(* strictly forward (the table branch too, which sets i = j - 1 before the *)
(* increment) and takes exactly the lines it passes, so no line is taken   *)
(* twice; at the end every line has been taken once; the empty string      *)
(* gives no block.                                                         *)
(***************************************************************************)
IterationAdvances ==
    pc = "scan" =>
        \/ /\ i < Len(lines)
           /\ i' > i
           /\ i' <= Len(lines)
           /\ pc' = "scan"
           /\ TakesUpTo
        \/ /\ i = Len(lines)
           /\ pc' = "done"
           /\ consumed' = consumed

\* what holds once the step is done
AfterIteration ==
    /\ pc' = "scan" => i' <= Len(lines')
    /\ pc' \in {"scan", "done"} => \A k \in 1..Len(lines') : consumed'[k] <= 1
    /\ pc' = "done" => (i' = Len(lines') /\ \A k \in 1..Len(lines') : consumed'[k] = 1)
    /\ (pc' = "done" /\ text' = <<>>) => Len(document') = Preamble

C8_ScanTerminates == [][IterationAdvances /\ AfterIteration]_vars

\* the scan has ended after a table branch that took three lines at once
C8_Witness ==
    /\ pc = "done"
    /\ \E b \in BlockIds : document[b].kind = "Table" /\ Len(origin[b]) >= 3

(***************************************************************************)
(* C9.  Every Heading block the scan emits has a level in {1, 2, 3}, the   *)
(* heading of a line that starts with a single "# " included.              *)
(***************************************************************************)
C9_HeadingLevels ==
    \A b \in BlockIds : document[b].kind = "Heading" => document[b].level \in {1, 2, 3}

(***************************************************************************)
(* C10.  The leading marker of a line the scan classifies decides the      *)
(* heading level: "## " gives level 1, "### " gives level 2, the deepest   *)
(* level, and "# " gives level 0, the top level, so the three levels are   *)
(* distinct and ordered "# " above "## " above "### "; the heading text is *)
(* what follows the marker; a list that is open is written out before the *)
(* heading, as the block right before it.                                  *)
(***************************************************************************)
MarkerLevel(l) ==
    IF startswith(l, <<"#", "#", " ">>) THEN [level |-> 1, skip |-> 3]
    ELSE IF startswith(l, <<"#", "#", "#", " ">>) THEN [level |-> 2, skip |-> 4]
    ELSE [level |-> 0, skip |-> 2]

HeadingStep ==
    /\ pc = "scan"
    /\ i < Len(lines)
    /\ \E m \in HeadingMarkers : startswith(strip(lines[i + 1]), m)

HeadingEmitted ==
    LET l == strip(lines[i + 1])
        open == IF list_items # <<>> THEN 1 ELSE 0
        last == Len(document) + open + 1
    IN  /\ Len(document') = last
        /\ SubSeq(document', 1, Len(document)) = document
        /\ document'[last].kind = "Heading"
        /\ document'[last].level = MarkerLevel(l).level
        /\ document'[last].text = SubSeq(l, MarkerLevel(l).skip + 1, Len(l))
        /\ Len(origin'[last]) = 1
        /\ origin'[last][1].line = i
        /\ list_items' = <<>>
        /\ open = 1 =>
              /\ document'[last - 1].kind = "List"
              /\ Len(document'[last - 1].paragraphs) = Len(list_items)
              /\ origin'[last - 1] = list_src

C10_MarkerDecidesLevel == [][HeadingStep => HeadingEmitted]_vars

\* a top-level heading right after the list it closed, and a heading of the deepest level
C10_Witness ==
    /\ Scanned
    /\ \E b \in BlockIds : document[b].kind = "Heading" /\ document[b].level = 2
    /\ \E b \in BlockIds :
          /\ document[b].kind = "List"
          /\ b + 1 <= Len(document)
          /\ document[b + 1].kind = "Heading"
          /\ document[b + 1].level = 0

(***************************************************************************)
(* C11.  The runs _add_formatted_text adds are decided by the matches of   *)
(* the pattern alone: every piece of the fragment outside the matches, a   *)
(* piece made only of unmatched "*" or "$" included, is one plain run of   *)
(* that piece, and a bold, italic or formula run is added only for a       *)
(* matched piece.                                                          *)
(***************************************************************************)
StyledRun(alt, inner) ==
    IF alt = "bold" THEN Run(inner, TRUE, FALSE, None)
    ELSE IF alt = "italic" THEN Run(inner, FALSE, TRUE, None)
    ELSE Run(inner, FALSE, TRUE, "purple")

\* one plain run per non-empty piece between the matches ms, one styled run per match
RECURSIVE runs_by_match(_, _, _)
runs_by_match(s, ms, from) ==
    LET plain(to) == IF to < from THEN <<>> ELSE <<PlainRun(SubSeq(s, from, to))>>
    IN  IF ms = <<>> THEN plain(Len(s))
        ELSE plain(ms[1].start - 1)
             \o <<StyledRun(ms[1].alt,
                            SubSeq(s, ms[1].start + DelimLen(ms[1].alt),
                                   ms[1].end - DelimLen(ms[1].alt)))>>
             \o runs_by_match(s, Tail(ms), ms[1].end + 1)

C11_StyleOnlyForMatches ==
    fpc = "done" => runs = runs_by_match(fragment, finditer(fragment, 1), 1)

(***************************************************************************)
(* C12.  No character is lost: every non-whitespace character of a line    *)
(* the scan has taken that is not part of a structural marker (the line's  *)
(* heading, list or quote marker, the "[DIAGRAM:" and "]" of a tag, a      *)
(* "|", a header-separator row, the delimiters of a matched span) is in    *)
(* the text of a block, item or row made from that line.  This holds of    *)
(* the text around a tag and of a line whose tag is never closed.          *)
(***************************************************************************)
\* the length of the marker the line starts with, 0 if it starts with none
LeadingMarker(l) ==
    IF startswith(l, <<"#", "#", "#", " ">>) THEN 4
    ELSE IF startswith(l, <<"#", "#", " ">>) THEN 3
    ELSE IF startswith(l, BulletGlyph) THEN 4
    ELSE IF \E m \in {<<"#", " ">>, <<"-", " ">>, <<">", " ">>} : startswith(l, m) THEN 2
    ELSE numbered_marker(l)

\* the line without the "[DIAGRAM:" and the "]" of its tag, if it has a closed one
WithoutTag(l) ==
    LET p == find(l, DiagramTag, 1)
        q == IF p = 0 THEN 0 ELSE find(l, <<"]">>, p)
    IN  IF q = 0 THEN l
        ELSE SubSeq(l, 1, p - 1) \o SubSeq(l, p + Len(DiagramTag), q - 1) \o SubSeq(l, q + 1, Len(l))

Chars(s) == {s[k] : k \in 1..Len(s)}

\* the characters of the line that are content, not marker
ContentChars(l) ==
    Chars(StripRecognized(WithoutTag(SliceFrom(l, LeadingMarker(l))))) \ {" ", "\t", "|"}

RECURSIVE RowText(_)
RowText(cells) == IF cells = <<>> THEN <<>> ELSE RunsText(Head(cells)) \o RowText(Tail(cells))

\* the text the place <<b, r>> holds: block b (its item or row r), or the pending item r
PlaceText(b, r) ==
    IF b = 0 THEN list_items[r]
    ELSE LET blk == document[b]
         IN  CASE blk.kind = "Heading" -> blk.text
               [] blk.kind = "List" -> RunsText(blk.paragraphs[r].runs)
               [] blk.kind = "DiagramPlaceholder" -> blk.description
               [] blk.kind = "Table" -> RowText(blk.cells[r])
               [] OTHER -> RunsText(blk.runs)

KeptChars(k) == UNION {Chars(PlaceText(pl[1], pl[2])) : pl \in PlacesOf(k)}

C12_NoCharacterLost ==
    Scanned =>
        \A k \in Taken :
            ~OnlyRulePunctuation(LineAt(k)) => ContentChars(LineAt(k)) \subseteq KeptChars(k)

\* the same, with the lines that hold "[DIAGRAM:" left out: what holds of the code
C12_ExceptTagLines ==
    Scanned =>
        \A k \in Taken :
            (~OnlyRulePunctuation(LineAt(k)) /\ find(LineAt(k), DiagramTag, 1) = 0)
                => ContentChars(LineAt(k)) \subseteq KeptChars(k)

\* the same, for the lines with a closed tag only
C12_AroundClosedTag ==
    Scanned =>
        \A k \in Taken :
            (find(LineAt(k), DiagramTag, 1) # 0 /\ ~MalformedTag(LineAt(k)))
                => ContentChars(LineAt(k)) \subseteq KeptChars(k)

(***************************************************************************)
(* C13.  A blank line (empty, or whitespace only) closes the list or table *)
(* that is open: no list and no table holds lines from both sides of a     *)
(* blank line the scan has taken, no item from before it is still pending  *)
(* after it, and the blank line itself gives no block, item or row.        *)
(***************************************************************************)
\* block b holds a line before line k and a line after it
Spans(b, k) ==
    \E r1, r2 \in 1..Len(origin[b]) : origin[b][r1].line < k /\ k < origin[b][r2].line

C13_BlankLineCloses ==
    Scanned =>
        \A k \in Taken :
            LineAt(k) = <<>> =>
                /\ PlacesOf(k) = {}
                /\ \A b \in BlockIds : ~Spans(b, k)
                /\ \A q \in 1..Len(Pending) : Pending[q].line > k

\* a whitespace-only line has split two lists, or two tables, that would else be one
C13_Witness ==
    /\ pc = "done"
    /\ \E k \in Taken :
          /\ LineAt(k) = <<>>
          /\ lines[k + 1] # <<>>
          /\ \E b \in BlockIds :
                /\ b + 1 \in BlockIds
                /\ document[b].kind \in {"List", "Table"}
                /\ document[b + 1].kind = document[b].kind
                /\ origin[b][Len(origin[b])].line = k - 1
                /\ origin[b + 1][1].line = k + 1

(***************************************************************************)
(* C14.  A line that matches more than one pattern is classified by the    *)
(* first of them in the order blank, heading, bullet item, numbered item,  *)
(* blockquote, diagram marker, table row, paragraph, whatever lines are    *)
(* before it: a heading line with pipes is a Heading block even when the   *)
(* line before it is a table row.                                          *)
(***************************************************************************)
PatternOrder ==
    <<"blank", "heading", "bullet", "numbered", "blockquote", "diagram", "table", "paragraph">>

\* the positions in PatternOrder of the patterns the trimmed line l matches
Patterns(l) ==
    {n \in 1..Len(PatternOrder) :
        CASE n = 1 -> l = <<>>
          [] n = 2 -> \E m \in HeadingMarkers : startswith(l, m)
          [] n = 3 -> \E m \in ListMarkers : startswith(l, m)
          [] n = 4 -> numbered_marker(l) # 0
          [] n = 5 -> startswith(l, <<">", " ">>)
          [] n = 6 -> find(l, DiagramTag, 1) # 0
          [] n = 7 -> count(l, "|") >= 2
          [] OTHER -> l # <<>>}

FirstPattern(l) == PatternOrder[Min(Patterns(l))]

\* the kind of block a line of the pattern goes to
KindFor(pattern) ==
    CASE pattern = "heading" -> "Heading"
      [] pattern \in {"bullet", "numbered"} -> "List"
      [] pattern = "blockquote" -> "Blockquote"
      [] pattern = "diagram" -> "DiagramPlaceholder"
      [] pattern = "table" -> "Table"
      [] OTHER -> "Paragraph"

PlaceKind(b) == IF b = 0 THEN "List" ELSE document[b].kind

\* the line matches two patterns or more, the paragraph fallback not counted
Overlapping(l) == Cardinality(Patterns(l) \ {Len(PatternOrder)}) >= 2

NewBlocks == Len(document') - Len(document) - Len(flushed_origin)

LastAdded == document'[Len(document')]

\* the step run on a line of the pattern did what the pattern's branch does
ReadAs(pattern, l) ==
    CASE pattern \in {"bullet", "numbered"} ->
            /\ document' = document
            /\ Len(list_items') = Len(list_items) + 1
            /\ current_list_type' = pattern
            /\ list_src'[Len(list_src')].line = i
      [] pattern = "blank" -> NewBlocks = 0 /\ list_items' = <<>>
      [] pattern = "diagram" ->
            IF MalformedTag(l) THEN NewBlocks = 0
            ELSE NewBlocks = 1 /\ LastAdded.kind = "DiagramPlaceholder"
      [] pattern = "table" ->
            IF \A k \in i..(i' - 1) : OnlyRulePunctuation(LineAt(k)) THEN NewBlocks = 0
            ELSE NewBlocks = 1 /\ LastAdded.kind = "Table"
      [] OTHER ->
            /\ NewBlocks = 1
            /\ LastAdded.kind = KindFor(pattern)
            /\ Len(origin'[Len(origin')]) = 1
            /\ origin'[Len(origin')][1].line = i

\* the lines the step takes after its first are rows of the table it has opened
TakenAsRows(pattern) ==
    \A k \in (i + 1)..(i' - 1) :
        /\ pattern = "table"
        /\ contains(lines[k + 1], "|")
        /\ \/ OnlyRulePunctuation(LineAt(k))
           \/ \E r \in 1..Len(origin'[Len(origin')]) : origin'[Len(origin')][r] = Src(k, "table")

IterationAgrees ==
    [][(pc = "scan" /\ i < Len(lines)) =>
          LET it == iteration(lines, i, list_items, current_list_type)
          IN  /\ document' = document \o it.added
              /\ i' = it.i
              /\ list_items' = it.list_items
              /\ current_list_type' = it.current_list_type]_vars

(***************************************************************************)
(* C15.  Calls of create_document share no state: however the steps of     *)
(* two calls are interleaved, the document a call returns holds exactly    *)
(* the elements that call added for its own text, and none of the other    *)
(* call's, also when both calls are made on the same DocxGenerator.        *)
(***************************************************************************)
C15_CallsShareNoState ==
    \A c \in Calls : calls[c].pc = "done" => calls[c].returned = added[c]

\* the same, for calls made on two generators (as generate_docx makes them): what
\* holds of the code
C15_OwnGenerator ==
    (calls[1].self # calls[2].self) =>
        \A c \in Calls : calls[c].pc = "done" => calls[c].returned = added[c]

(***************************************************************************)
(* C16.  The text stored for a list item is the trimmed line without its   *)
(* leading marker, the whole marker and nothing more: "- ", the bullet     *)
(* glyph and a space, or the digits, the period and the whitespace         *)
(* character after it, whatever the length of the marker.                  *)
(***************************************************************************)
\* the length of the list marker the line starts with
ListMarkerLen(l) ==
    IF startswith(l, <<"-", " ">>) THEN 2
    ELSE IF startswith(l, BulletGlyph) THEN Len(BulletGlyph)
    ELSE numbered_marker(l)

C16_ItemIsLineWithoutMarker ==
    pc = "scan" =>
        \A q \in 1..Len(list_items) :
            list_items[q] = SliceFrom(LineAt(list_src[q].line), ListMarkerLen(LineAt(list_src[q].line)))

\* the same, with the lines that start with the bullet glyph left out: what holds of the code
C16_ExceptGlyphLines ==
    pc = "scan" =>
        \A q \in 1..Len(list_items) :
            ~startswith(LineAt(list_src[q].line), BulletGlyph) =>
                list_items[q] = SliceFrom(LineAt(list_src[q].line),
                                          ListMarkerLen(LineAt(list_src[q].line)))

(***************************************************************************)
(* C17.  The inline formatter is applied to the text of every block that   *)
(* bears text (heading, paragraph, list item, blockquote, table cell): no  *)
(* run of such a block that is not an italic or formula run holds a "**"   *)
(* span as literal asterisks.                                              *)
(***************************************************************************)
RECURSIVE Flatten(_)
Flatten(ss) == IF ss = <<>> THEN <<>> ELSE Head(ss) \o Flatten(Tail(ss))

\* the runs of a block that bears text; a heading is one run of its text
BlockRuns(blk) ==
    CASE blk.kind = "Heading" -> <<PlainRun(blk.text)>>
      [] blk.kind = "List" -> Flatten([k \in 1..Len(blk.paragraphs) |-> blk.paragraphs[k].runs])
      [] blk.kind = "Table" -> Flatten([r \in 1..Len(blk.cells) |-> Flatten(blk.cells[r])])
      [] blk.kind \in {"Paragraph", "Blockquote"} -> blk.runs
      [] OTHER -> <<>>

HasBoldSpan(t) == \E p \in 1..Len(t) : BoldEnd(t, p) # 0

NoLiteralSpan(rs) == \A k \in 1..Len(rs) : ~rs[k].italic => ~HasBoldSpan(rs[k].text)

C17_FormatterOnEveryBlock ==
    \A b \in BlockIds : NoLiteralSpan(BlockRuns(document[b]))

\* the same for the blocks other than headings and tables: what holds of the code
C17_ExceptHeadingsAndTables ==
    \A b \in BlockIds :
        document[b].kind \notin {"Heading", "Table"} => NoLiteralSpan(BlockRuns(document[b]))

\* where the formatter is called, for any fragment, it leaves no literal span
C17_FormatterLeavesNoSpan ==
    fpc = "done" => NoLiteralSpan(runs)

(***************************************************************************)
(* C18.  The description of a DiagramPlaceholder is the text between the   *)
(* ":" of "[DIAGRAM:" and the closing "]", trimmed on both sides: it       *)
(* neither starts nor ends with a whitespace character.                    *)
(***************************************************************************)
\* the text between "[DIAGRAM:" and the first "]" after it
TagInside(l) ==
    LET p == find(l, DiagramTag, 1)
    IN  SubSeq(l, p + Len(DiagramTag), find(l, <<"]">>, p) - 1)

C18_DescriptionTrimmed ==
    \A b \in BlockIds :
        document[b].kind = "DiagramPlaceholder" =>
            /\ document[b].description = strip(document[b].description)
            /\ document[b].description = strip(TagInside(LineAt(origin[b][1].line)))

\* the same, trimmed on the left only: what holds of the code
C18_TrimmedOnTheLeft ==
    \A b \in BlockIds :
        document[b].kind = "DiagramPlaceholder" =>
            LET inside == TagInside(LineAt(origin[b][1].line))
            IN  \E n \in 0..Len(inside) :
                    /\ document[b].description = SliceFrom(inside, n)
                    /\ \A k \in 1..n : IsSpace(inside[k])
                    /\ (document[b].description # <<>> => ~IsSpace(document[b].description[1]))

(***************************************************************************)
(* C19.  Every item appended to the open list is written out exactly once, *)
(* in input order, in exactly one list block; the list block comes before  *)
(* the block of the line that closed it, and a list still open at the end  *)
(* of the input is written out then: no item is lost or written twice.     *)
(***************************************************************************)
\* line k was appended to list_items: a list line the loop body read
Appended(k) == FirstPattern(LineAt(k)) \in {"bullet", "numbered"} /\ ~ReadAsTableRow(k)

\* the item the list branch stored for line l (lines 128 and 133)
StoredItem(l) == SliceFrom(l, IF FirstPattern(l) = "bullet" THEN 2 ELSE numbered_marker(l))

\* the place holds the item of line k
HoldsItem(pl, k) ==
    IF pl[1] = 0 THEN list_items[pl[2]] = StoredItem(LineAt(k))
    ELSE /\ document[pl[1]].kind = "List"
         /\ Len(document[pl[1]].paragraphs) = Len(origin[pl[1]])
         /\ document[pl[1]].paragraphs[pl[2]].runs = _add_formatted_text(StoredItem(LineAt(k)))

\* the lines of block b are consecutive lines of the input, in order
InInputOrder(src) == \A r \in 1..(Len(src) - 1) : src[r + 1].line = src[r].line + 1

C19_ItemsEmittedOnce ==
    Scanned =>
        /\ \A k \in Taken :
              Appended(k) =>
                  /\ Cardinality(PlacesOf(k)) = 1
                  /\ \A pl \in PlacesOf(k) : HoldsItem(pl, k)
        /\ \A b \in BlockIds :
              document[b].kind = "List" =>
                  /\ origin[b] # <<>>
                  /\ InInputOrder(origin[b])
                  /\ \A r \in 1..Len(origin[b]) : Appended(origin[b][r].line)
                  /\ \A b2 \in BlockIds :
                        (b2 > b /\ origin[b2] # <<>>) =>
                            origin[b2][1].line > origin[b][Len(origin[b])].line
        /\ InInputOrder(Pending)
        /\ \A q \in 1..Len(Pending) :
              \A b \in BlockIds : \A r \in 1..Len(origin[b]) : origin[b][r].line < Pending[q].line
        /\ pc = "scan" => Len(list_items) = Len(list_src)

\* a list closed by a heading, its block right before the heading's, and a list that
\* was still open when the input ended
C19_Witness ==
    /\ pc = "done"
    /\ \E b \in BlockIds :
          /\ document[b].kind = "List"
          /\ b + 1 \in BlockIds
          /\ document[b + 1].kind = "Heading"
          /\ origin[b + 1][1].line = origin[b][Len(origin[b])].line + 1
    /\ document[Len(document)].kind = "List"
    /\ origin[Len(document)][Len(origin[Len(document)])].line = Len(lines) - 1

(***************************************************************************)
(* C20.  While a table is open, a line that starts with a list marker      *)
(* ("- ", or digits, a period and a space) and holds at least two "|" is   *)
(* taken as a row of the table and opens no list; the same line read when  *)
(* no table is open is a list item, the list patterns being tested before  *)
(* the table pattern.                                                      *)
(***************************************************************************)
\* line k belongs to a table: it opens one, or it holds a "|" and the line before it
\* belongs to one
RECURSIVE InTable(_)
InTable(k) ==
    /\ contains(lines[k + 1], "|")
    /\ IF k > 0 /\ InTable(k - 1) THEN TRUE ELSE FirstPattern(LineAt(k)) = "table"

ListLineWithPipes(l) ==
    /\ startswith(l, <<"-", " ">>) \/ numbered_marker(l) # 0
    /\ count(l, "|") >= 2

C20_TableWinsOnceOpen ==
    Scanned =>
        \A k \in Taken :
            ListLineWithPipes(LineAt(k)) =>
                /\ Cardinality(PlacesOf(k)) = 1
                /\ \A pl \in PlacesOf(k) :
                      PlaceKind(pl[1]) = IF k > 0 /\ InTable(k - 1) THEN "Table" ELSE "List"

\* the same list line with pipes is a list item where no table was open and a row of
\* the table that was open before its second occurrence
C20_Witness ==
    /\ pc = "done"
    /\ \E k1, k2 \in Taken :
          /\ LineAt(k1) = LineAt(k2)
          /\ ListLineWithPipes(LineAt(k1))
          /\ \E pl \in PlacesOf(k1) : PlaceKind(pl[1]) = "List"
          /\ \E pl \in PlacesOf(k2) : PlaceKind(pl[1]) = "Table"

(***************************************************************************)
(* C21.  The matches of the pattern are found left to right and do not     *)
(* overlap, and where a "**" with a later closing "**" starts, the match   *)
(* is the bold one: each bold match "**x**" gives exactly one run, bold    *)
(* and not italic, with text x, and "****" gives one bold run with empty   *)
(* text.                                                                   *)
(***************************************************************************)
\* each match is the leftmost one after the match before it, and none overlaps another
LeftToRight(s, ms) ==
    \A k \in 1..Len(ms) :
        LET from == IF k = 1 THEN 1 ELSE ms[k - 1].end + 1
        IN  /\ from <= ms[k].start
            /\ ms[k].start + 2 * DelimLen(ms[k].alt) - 1 <= ms[k].end
            /\ ms[k].end <= Len(s)
            /\ \A p \in from..(ms[k].start - 1) : MatchAt(s, p).end = 0

\* a match that starts on "**" with a closing "**" after it is a bold match
BoldFirst(s, ms) ==
    \A k \in 1..Len(ms) :
        (SubSeq(s, ms[k].start, ms[k].start + 1) = <<"*", "*">>
         /\ find(s, <<"*", "*">>, ms[k].start + 2) # 0) => ms[k].alt = "bold"

C21_BoldSpanIsOneBoldRun ==
    fpc = "done" =>
        LET ms == finditer(fragment, 1)
            want == runs_by_match(fragment, ms, 1)
        IN  /\ LeftToRight(fragment, ms)
            /\ BoldFirst(fragment, ms)
            /\ Len(runs) = Len(want)
            /\ \A k \in 1..Len(want) :
                  want[k].bold => (runs[k] = want[k] /\ ~runs[k].italic)
            /\ fragment = <<"*", "*", "*", "*">> => runs = <<Run(<<>>, TRUE, FALSE, None)>>

\* a bold span with a non-empty inner text has been formatted
C21_Witness ==
    /\ fpc = "done"
    /\ \E k \in 1..Len(runs) : runs[k].bold /\ runs[k].text # <<>>
    /\ \E m \in 1..Len(finditer(fragment, 1)) :
          /\ finditer(fragment, 1)[m].alt = "bold"
          /\ finditer(fragment, 1)[m].end - finditer(fragment, 1)[m].start >= 4

(***************************************************************************)
(* C22.  process_image never lets an exception out: a failure of image     *)
(* preparation, of the creation of the extractor or of the extraction      *)
(* makes it return (message, False).  After a failed attempt               *)
(* session_state.extracted_text is what it was before the attempt and      *)
(* processing is False again: only a successful attempt changes            *)
(* extracted_text.                                                         *)
(***************************************************************************)
\* the call of process_image returns, with success False exactly when a step of it failed
ProcessImageReturns ==
    apc = "process_image" =>
        /\ apc' = "returned"
        /\ returned'[2] = (failure' = "none")
        /\ failure' # "none" => returned'[1] \notin ExtractedTexts
        /\ UNCHANGED <<session_state.extracted_text, session_state.processing>>

\* the handler ends with processing False, and with the text untouched after a failure
HandlerEnds ==
    apc = "returned" =>
        /\ apc' = "idle"
        /\ session_state'.processing = FALSE
        /\ ~returned[2] => (session_state'.extracted_text = before
                            /\ session_state'.extracted_text = session_state.extracted_text)

OnlySuccessChangesText ==
    session_state'.extracted_text # session_state.extracted_text =>
        (apc = "returned" /\ returned[2] /\ session_state'.extracted_text = returned[1])

C22_FailureLeavesTextAlone ==
    [][/\ ProcessImageReturns
       /\ HandlerEnds
       /\ OnlySuccessChangesText
       /\ apc' = "idle" => session_state'.processing = FALSE]_vars

\* an attempt has failed in the extraction after an earlier one had succeeded, and the
\* earlier text is still there
C22_Witness ==
    /\ apc = "idle"
    /\ failure = "extraction"
    /\ returned # None
    /\ ~returned[2]
    /\ before \in ExtractedTexts
    /\ session_state.extracted_text = before
    /\ session_state.processing = FALSE

(***************************************************************************)
(* C23.  In one session, get_extractor calls VisionExtractor(...) at most  *)
(* once for a model key.  After a construction that succeeded every later  *)
(* call returns that same instance.  After one that failed the key holds   *)
(* None and the error message is saved, every later call returns None and  *)
(* does not try again, and process_image, given that None, returns the     *)
(* saved message with success False.                                       *)
(***************************************************************************)
\* what the session state holds for the key, given the number of constructions
CachedOnce(k) ==
    /\ constructions[k] <= 1
    /\ session_state.extractor[k] = Absent <=> constructions[k] = 0
    /\ session_state.extractor[k] = None => session_state.extractor_error[k] # Absent
    /\ session_state.extractor[k] \notin {Absent, None} =>
          (session_state.extractor[k] = Instance(k, 1) /\ session_state.extractor_error[k] = Absent)

\* this step is a call of process_image that gets as far as get_extractor
CallsGetExtractor == apc = "process_image" /\ got' # "no call"

GetExtractorStep ==
    LET k == session_state.selected_model
    IN  /\ \A m \in ModelKeys \ {k} :
              /\ constructions'[m] = constructions[m]
              /\ session_state'.extractor[m] = session_state.extractor[m]
              /\ session_state'.extractor_error[m] = session_state.extractor_error[m]
        /\ got' = session_state'.extractor[k]
        /\ IF session_state.extractor[k] = Absent
           THEN constructions'[k] = 1
           ELSE /\ constructions'[k] = constructions[k]
                /\ got' = session_state.extractor[k]
                /\ session_state'.extractor_error[k] = session_state.extractor_error[k]
        /\ got' = None =>
              returned' = <<"Error: " \o session_state'.extractor_error[k], FALSE>>
        /\ got' # None => failure' # "extractor creation"

C23_ConstructedAtMostOnce ==
    [][/\ CallsGetExtractor => GetExtractorStep
       /\ ~CallsGetExtractor =>
              UNCHANGED <<constructions, session_state.extractor, session_state.extractor_error>>
       /\ \A k \in ModelKeys : CachedOnce(k)']_vars

\* the construction for the OpenAI model failed for want of a key; the key has been set
\* since, and a later call still returned None with the saved message
C23_Witness ==
    /\ apc = "returned"
    /\ session_state.selected_model = "GPT-4-Vision"
    /\ environment.OPENAI_AVAILABLE
    /\ environment.OPENAI_API_KEY
    /\ constructions["GPT-4-Vision"] = 1
    /\ got = None
    /\ returned = <<"Error: OpenAI API key required", FALSE>>

====
